---- MODULE Spec2Model ----
(***************************************************************************)
(* Ingredient co-occurrence network (final.py): normalize, pairwise,       *)
(* IngredientNetwork._build_graph and the four queries related,            *)
(* shortest_path, most_connected and stats.                                *)
(*                                                                         *)
(* normalize works on the characters of a str: a sequence of one-character *)
(* strings.  The recipes, the queries and the graph hold each str as a     *)
(* string, and CharsOf gives its characters.  A Python dict (Counter, the  *)
(* networkx node and adjacency dicts) is a sequence of <<key, value>>      *)
(* pairs in insertion order, because the iteration order of these dicts is *)
(* observable in related and most_connected.                               *)
(***************************************************************************)
EXTENDS Integers, Sequences, FiniteSets, TLC

VARIABLES df, min_cooc, graph, last

vars == <<df, min_cooc, graph, last>>

----------------------------------------------------------------------------
(* Bounds of the model *)

MaxRecipes == 2
MaxIngredients == 3
MaxMentions == 5
MaxTopN == 2
MaxPieces == 3

----------------------------------------------------------------------------
(* Module constants of final.py *)

MIN_COOC_THRESHOLD == 2

STOPWORDS ==
    {<<"f","r","e","s","h">>,
     <<"d","r","i","e","d">>,
     <<"g","r","o","u","n","d">>,
     <<"l","a","r","g","e">>,
     <<"s","m","a","l","l">>,
     <<"m","e","d","i","u","m">>,
     <<"e","x","t","r","a">>,
     <<"l","o","w","-","f","a","t">>,
     <<"n","o","n","f","a","t">>,
     <<"s","k","i","n","l","e","s","s">>,
     <<"b","o","n","e","l","e","s","s">>,
     <<"o","r","g","a","n","i","c">>,
     <<"s","a","l","t","e","d">>,
     <<"u","n","s","a","l","t","e","d">>,
     <<"w","h","o","l","e">>,
     <<"h","a","l","v","e","d">>,
     <<"c","h","o","p","p","e","d">>,
     <<"f","i","n","e","l","y">>,
     <<"m","i","n","c","e","d">>,
     <<"c","r","u","m","b","l","e","d">>,
     <<"s","h","r","e","d","d","e","d">>,
     <<"p","e","e","l","e","d">>,
     <<"r","i","p","e">>,
     <<"g","r","a","t","e","d">>,
     <<"s","l","i","c","e","d">>,
     <<"f","r","o","z","e","n">>,
     <<"c","o","l","d">>,
     <<"w","a","r","m">>,
     <<"h","o","t">>}

----------------------------------------------------------------------------
(* Characters and string comparison *)

LowerChars ==
    <<"a","b","c","d","e","f","g","h","i","j","k","l","m",
      "n","o","p","q","r","s","t","u","v","w","x","y","z">>

UpperChars ==
    <<"A","B","C","D","E","F","G","H","I","J","K","L","M",
      "N","O","P","Q","R","S","T","U","V","W","X","Y","Z">>

DigitChars == <<"0","1","2","3","4","5","6","7","8","9">>

Range(s) == {s[i] : i \in 1..Len(s)}

LowerSet == Range(LowerChars)

UpperSet == Range(UpperChars)

DigitSet == Range(DigitChars)

IndexOf(s, c) == CHOOSE i \in 1..Len(s) : s[i] = c

\* str.isspace for the whitespace characters of the model
IsSpace(c) == c \in {" ", "\t", "\n"}

\* the characters of the model
Chars == LowerSet \cup UpperSet \cup DigitSet \cup {" ", "\t", "\n", "-", ","}

\* ord(c): the code point, which is what Python compares strings by
CodePoint ==
    [c \in Chars |->
        IF c \in LowerSet THEN 96 + IndexOf(LowerChars, c)
        ELSE IF c \in UpperSet THEN 64 + IndexOf(UpperChars, c)
        ELSE IF c \in DigitSet THEN 47 + IndexOf(DigitChars, c)
        ELSE IF c = " " THEN 32
        ELSE IF c = "\t" THEN 9
        ELSE IF c = "\n" THEN 10
        ELSE IF c = "-" THEN 45
        ELSE 44]

\* s < t for Python str: lexicographic by code point
StrLess(s, t) ==
    \E i \in 1..(Len(s) + 1) :
        /\ \A j \in 1..(i - 1) : j <= Len(t) /\ s[j] = t[j]
        /\ \/ i = Len(s) + 1 /\ Len(t) >= i
           \/ i <= Len(s) /\ i <= Len(t) /\ CodePoint[s[i]] < CodePoint[t[i]]

----------------------------------------------------------------------------
(* normalize *)

\* str.lower, one character
ToLower == [c \in UpperSet |-> LowerChars[IndexOf(UpperChars, c)]]

LowerChar(c) == IF c \in UpperSet THEN ToLower[c] ELSE c

lower(name) == [i \in 1..Len(name) |-> LowerChar(name[i])]

\* re.sub(r"[^a-z0-9\s]", " ", name)
re_sub(name) ==
    [i \in 1..Len(name) |->
        IF \/ name[i] \in LowerSet
           \/ name[i] \in DigitSet
           \/ IsSpace(name[i])
        THEN name[i] ELSE " "]

\* str.split(): maximal runs of non-whitespace characters, in order
RECURSIVE split_from(_, _, _)
split_from(name, i, cur) ==
    IF i > Len(name)
    THEN IF cur = <<>> THEN <<>> ELSE <<cur>>
    ELSE IF IsSpace(name[i])
         THEN (IF cur = <<>> THEN <<>> ELSE <<cur>>) \o split_from(name, i + 1, <<>>)
         ELSE split_from(name, i + 1, Append(cur, name[i]))

split(name) == split_from(name, 1, <<>>)

\* [t for t in tokens if t not in STOPWORDS]
RECURSIVE drop_stopwords(_)
drop_stopwords(tokens) ==
    IF tokens = <<>> THEN <<>>
    ELSE (IF Head(tokens) \in STOPWORDS THEN <<>> ELSE <<Head(tokens)>>)
         \o drop_stopwords(Tail(tokens))

\* " ".join(tokens)
RECURSIVE join(_)
join(tokens) ==
    IF tokens = <<>> THEN <<>>
    ELSE IF Len(tokens) = 1 THEN Head(tokens)
    ELSE Head(tokens) \o <<" ">> \o join(Tail(tokens))

\* the same steps with the stopword filter applied before the substitution
normalize_filter_first(name) ==
    join(split(re_sub(join(drop_stopwords(split(lower(name)))))))

normalize(name) == join(drop_stopwords(split(re_sub(lower(name)))))

----------------------------------------------------------------------------
(* The ingredient texts of the model *)

\* raw ingredient texts of the corpus: normalize gives ham, egg, oil
RawNames == {"Ham", "hot egg", "oil"}

\* raw texts typed into the queries: the three keys in other spellings and
\* an ingredient of no recipe
QueryNames == {"ham", "Egg", "OIL,", "fig"}

\* the characters of each str of the model: the texts above and their keys
CharsOf ==
    [s \in {"Ham", "hot egg", "oil", "ham", "Egg", "OIL,", "fig", "egg"} |->
        CASE s = "Ham"     -> <<"H","a","m">>
          [] s = "hot egg" -> <<"h","o","t"," ","e","g","g">>
          [] s = "oil"     -> <<"o","i","l">>
          [] s = "ham"     -> <<"h","a","m">>
          [] s = "Egg"     -> <<"E","g","g">>
          [] s = "OIL,"    -> <<"O","I","L",",">>
          [] s = "fig"     -> <<"f","i","g">>
          [] s = "egg"     -> <<"e","g","g">>]

\* the str made of the characters cs
StrOf(cs) == CHOOSE s \in DOMAIN CharsOf : CharsOf[s] = cs

\* normalize, computed once for each str of the model
KeyOf == [x \in DOMAIN CharsOf |-> StrOf(normalize(CharsOf[x]))]

\* normalize(name) for a str of the model
Normalize(name) == KeyOf[name]

\* s < t, computed once for each two strs of the model
LessTable == [s \in DOMAIN CharsOf |-> [t \in DOMAIN CharsOf |-> StrLess(CharsOf[s], CharsOf[t])]]

Less(s, t) == LessTable[s][t]

----------------------------------------------------------------------------
(* Python dicts in insertion order: sequences of <<key, value>> *)

HasKey(d, k) == \E i \in 1..Len(d) : d[i][1] = k

KeyIndex(d, k) == CHOOSE i \in 1..Len(d) : d[i][1] = k

Get(d, k) == d[KeyIndex(d, k)][2]

Keys(d) == [i \in 1..Len(d) |-> d[i][1]]

KeySet(d) == {d[i][1] : i \in 1..Len(d)}

\* d[k] = v : a new key goes last, an existing key keeps its place
DictSet(d, k, v) ==
    IF HasKey(d, k) THEN [d EXCEPT ![KeyIndex(d, k)] = <<k, v>>]
    ELSE Append(d, <<k, v>>)

\* Counter: c[k] += 1
CounterInc(c, k) ==
    IF HasKey(c, k) THEN [c EXCEPT ![KeyIndex(c, k)] = <<k, c[KeyIndex(c, k)][2] + 1>>]
    ELSE Append(c, <<k, 1>>)

\* Counter.update(iterable): one increment per element, in order
RECURSIVE CounterUpdate(_, _)
CounterUpdate(c, elems) ==
    IF elems = <<>> THEN c
    ELSE CounterUpdate(CounterInc(c, Head(elems)), Tail(elems))

----------------------------------------------------------------------------
(* pairwise *)

\* sorted(...) of strs, ascending; stable for equal elements
RECURSIVE sorted(_)
sorted(elems) ==
    IF elems = <<>> THEN <<>>
    ELSE LET m == CHOOSE i \in 1..Len(elems) :
                    /\ \A j \in 1..Len(elems) : ~Less(elems[j], elems[i])
                    /\ \A j \in 1..(i - 1) : elems[j] # elems[i]
             rest == [j \in 1..(Len(elems) - 1) |->
                        IF j < m THEN elems[j] ELSE elems[j + 1]]
         IN <<elems[m]>> \o sorted(rest)

\* list(set(iterable)): the distinct elements (in some order; sorted() follows)
RECURSIVE distinct(_)
distinct(elems) ==
    IF elems = <<>> THEN <<>>
    ELSE LET d == distinct(Tail(elems))
         IN IF Head(elems) \in Range(d) THEN d ELSE <<Head(elems)>> \o d

\* itertools.combinations(pool, 2): index pairs i < j in lexicographic order
RECURSIVE combinations2(_)
combinations2(pool) ==
    IF Len(pool) < 2 THEN <<>>
    ELSE [j \in 1..(Len(pool) - 1) |-> <<pool[1], pool[j + 1]>>]
         \o combinations2(Tail(pool))

\* pairwise without the set(): repeated ingredients pair up repeatedly
pairwise_no_set(iterable) == combinations2(sorted(iterable))

pairwise(iterable) == combinations2(sorted(distinct(iterable)))

----------------------------------------------------------------------------
(* networkx.Graph: node dict (key -> count attribute) and adjacency dict   *)
(* (key -> dict of neighbour -> weight attribute)                          *)

EmptyGraph == [node |-> <<>>, adj |-> <<>>]

\* ing in self.graph
HasNode(g, n) == HasKey(g.node, n)

add_node(g, n, count) ==
    [node |-> DictSet(g.node, n, count),
     adj  |-> IF HasKey(g.adj, n) THEN g.adj ELSE Append(g.adj, <<n, <<>>>>)]

\* add_edge(u, v, weight=w); u and v are keys of counts, hence nodes already
add_edge(g, u, v, w) ==
    LET adj1 == DictSet(g.adj, u, DictSet(Get(g.adj, u), v, w))
        adj2 == DictSet(adj1, v, DictSet(Get(adj1, v), u, w))
    IN [node |-> g.node, adj |-> adj2]

\* self.graph.degree[n]; there are no self-loops
degree(g, n) == Len(Get(g.adj, n))

\* iteration of self.graph.degree: (node, degree) in node insertion order
degree_view(g) == [i \in 1..Len(g.node) |-> <<g.node[i][1], degree(g, g.node[i][1])>>]

Neighbors(g, n) == KeySet(Get(g.adj, n))

----------------------------------------------------------------------------
(* IngredientNetwork._build_graph *)

\* for a, b in pairs: cooc[(a, b)] += 1
RECURSIVE count_pairs(_, _)
count_pairs(cooc, pairs) ==
    IF pairs = <<>> THEN cooc
    ELSE count_pairs(CounterInc(cooc, Head(pairs)), Tail(pairs))

\* clean = [normalize(i) for i in ingredients]
clean_of(ingredients) == [i \in 1..Len(ingredients) |-> Normalize(ingredients[i])]

\* the loop over self.df["ingredients"], giving <<counts, cooc>>
RECURSIVE scan_recipes(_, _, _)
scan_recipes(recipes, counts, cooc) ==
    IF recipes = <<>> THEN <<counts, cooc>>
    ELSE LET clean == clean_of(Head(recipes))
         IN scan_recipes(Tail(recipes),
                         CounterUpdate(counts, clean),
                         count_pairs(cooc, pairwise(clean)))

\* for ing, n in counts.items(): add_node(ing, count=n)
RECURSIVE add_nodes(_, _)
add_nodes(g, counts) ==
    IF counts = <<>> THEN g
    ELSE add_nodes(add_node(g, Head(counts)[1], Head(counts)[2]), Tail(counts))

\* for (a, b), w in cooc.items(): if w >= min_cooc: add_edge(a, b, weight=w)
RECURSIVE add_edges(_, _, _)
add_edges(g, cooc, mc) ==
    IF cooc = <<>> THEN g
    ELSE LET ab == Head(cooc)[1]
             w  == Head(cooc)[2]
         IN add_edges(IF w >= mc THEN add_edge(g, ab[1], ab[2], w) ELSE g,
                      Tail(cooc), mc)

build_graph(recipes, mc) ==
    LET cc == scan_recipes(recipes, <<>>, <<>>)
    IN add_edges(add_nodes(EmptyGraph, cc[1]), cc[2], mc)

----------------------------------------------------------------------------
(* Python values returned by the queries *)

None == [kind |-> "None", val |-> <<>>]

List(v) == [kind |-> "list", val |-> v]

Tuple(v) == [kind |-> "tuple", val |-> v]

Dict(v) == [kind |-> "dict", val |-> v]

\* an exception leaving the call
Raised(name) == [kind |-> "raise", val |-> name]

Min(a, b) == IF a <= b THEN a ELSE b

Max(a, b) == IF a >= b THEN a ELSE b

----------------------------------------------------------------------------
(* IngredientNetwork.related *)

\* the insertion step of a sort without reverse=True: ascending by weight
insert_asc(s, x) ==
    LET k == Cardinality({i \in 1..Len(s) : s[i][2] <= x[2]})
    IN SubSeq(s, 1, k) \o <<x>> \o SubSeq(s, k + 1, Len(s))

\* where sorted(..., key=weight, reverse=True) puts x among the items before
\* it: after every item of weight >= x's, so that equal weights keep the
\* order of nbrs.items()
insert_desc(s, x) ==
    LET k == Cardinality({i \in 1..Len(s) : s[i][2] >= x[2]})
    IN SubSeq(s, 1, k) \o <<x>> \o SubSeq(s, k + 1, Len(s))

RECURSIVE sorted_from(_, _)
sorted_from(done, items) ==
    IF items = <<>> THEN done
    ELSE sorted_from(insert_desc(done, Head(items)), Tail(items))

\* sorted(nbrs.items(), key=lambda it: it[1]["weight"], reverse=True)
sorted_by_weight(items) == sorted_from(<<>>, items)

\* s[:n], also for negative n
slice_to(s, n) ==
    IF n >= 0 THEN SubSeq(s, 1, Min(n, Len(s)))
    ELSE SubSeq(s, 1, Max(0, Len(s) + n))

related(g, ingredient, top_n) ==
    LET ing == Normalize(ingredient)
    IN IF ~HasNode(g, ing) THEN <<>>
       ELSE slice_to(sorted_by_weight(Get(g.adj, ing)), top_n)

----------------------------------------------------------------------------
(* IngredientNetwork.shortest_path *)

\* breadth-first layers from the source up to the layer holding the target;
\* <<>> when the search dies out first (NetworkXNoPath)
RECURSIVE bfs_layers(_, _, _, _)
bfs_layers(g, layers, seen, target) ==
    LET cur == layers[Len(layers)]
    IN IF target \in cur THEN layers
       ELSE LET nxt == UNION {Neighbors(g, v) : v \in cur} \ seen
            IN IF nxt = {} THEN <<>>
               ELSE bfs_layers(g, Append(layers, nxt), seen \cup nxt, target)

\* the paths a breadth-first search can report: one node per layer, each
\* adjacent to the next
RECURSIVE back_paths(_, _, _, _)
back_paths(g, layers, k, suffix) ==
    IF k = 0 THEN {suffix}
    ELSE UNION {back_paths(g, layers, k - 1, <<u>> \o suffix) :
                    u \in {v \in layers[k] : Head(suffix) \in Neighbors(g, v)}}

\* every simple path from source to target, shortest or not
RECURSIVE simple_paths(_, _, _)
simple_paths(g, prefix, target) ==
    LET v == prefix[Len(prefix)]
    IN IF v = target THEN {prefix}
       ELSE UNION {simple_paths(g, Append(prefix, u), target) :
                       u \in Neighbors(g, v) \ Range(prefix)}

\* a search that reports any connecting path
nx_any_path(g, source, target) == simple_paths(g, <<source>>, target)

\* nx.shortest_path(G, source, target) without weights: the set of paths it
\* may return (which of several shortest paths is the library's choice);
\* the empty set stands for raising NetworkXNoPath
nx_shortest_path(g, source, target) ==
    LET layers == bfs_layers(g, <<{source}>>, {source}, target)
    IN IF layers = <<>> THEN {}
       ELSE back_paths(g, layers, Len(layers) - 1, <<target>>)

\* the set of values shortest_path(a, b) may return
shortest_path(g, a0, b0) ==
    LET a == Normalize(a0)
        b == Normalize(b0)
    IN IF ~HasNode(g, a) \/ ~HasNode(g, b) THEN {None}
       ELSE LET ps == nx_shortest_path(g, a, b)
            IN IF ps = {} THEN {None} ELSE {List(p) : p \in ps}

----------------------------------------------------------------------------
(* IngredientNetwork.most_connected *)

\* max(iterable, key=lambda t: t[1]): the first item of maximal key;
\* ValueError on an empty iterable
max_by_degree(items) ==
    IF items = <<>> THEN Raised("ValueError")
    ELSE Tuple(items[CHOOSE i \in 1..Len(items) :
                        /\ \A j \in 1..Len(items) : items[j][2] <= items[i][2]
                        /\ \A j \in 1..(i - 1) : items[j][2] < items[i][2]])

most_connected(g) == max_by_degree(degree_view(g))

----------------------------------------------------------------------------
(* IngredientNetwork.stats *)

stats(g, ingredient) ==
    LET ing == Normalize(ingredient)
    IN IF ~HasNode(g, ing) THEN None
       ELSE Dict([ingredient |-> ing,
                  recipes_containing |-> Get(g.node, ing),
                  degree |-> degree(g, ing),
                  top_pairings |-> related(g, ing, 5)])

----------------------------------------------------------------------------
(* Inputs *)

RECURSIVE Sum(_)
Sum(lens) == IF lens = <<>> THEN 0 ELSE Head(lens) + Sum(Tail(lens))

\* the lengths of the recipes of a corpus: bounded in number, each in size,
\* and all in total size
RecipeLengths ==
    UNION {{lens \in [1..m -> 0..MaxIngredients] : Sum(lens) <= MaxMentions} :
               m \in 0..MaxRecipes}

\* the recipes of the given lengths, holding the ingredients of flat in order
RECURSIVE Cut(_, _)
Cut(flat, lens) ==
    IF lens = <<>> THEN <<>>
    ELSE <<SubSeq(flat, 1, Head(lens))>>
         \o Cut(SubSeq(flat, Head(lens) + 1, Len(flat)), Tail(lens))

\* min_cooc: the default, and 0, below every count (1 builds the same graph as 0)
MinCoocs == {0, MIN_COOC_THRESHOLD}

TopNs == 0..MaxTopN

\* pieces of text the inputs of normalize are joined from
Pieces ==
    {<<"h","o","t">>,
     <<"l","o","w","-","f","a","t">>,
     <<"E","g","g">>,
     <<"2">>,
     <<" ">>,
     <<"-">>,
     <<"\t">>}

RECURSIVE concat(_)
concat(parts) == IF parts = <<>> THEN <<>> ELSE Head(parts) \o concat(Tail(parts))

Texts == {concat(ps) : ps \in UNION {[1..n -> Pieces] : n \in 0..MaxPieces}}

----------------------------------------------------------------------------
(* The network after IngredientNetwork(df, min_cooc), and its queries.     *)
(* The calls are synchronous: last holds the call that has just returned   *)
(* until its caller has taken the result, then the next call can be made.  *)

Call(op, a, b, n, ret) == [op |-> op, a |-> a, b |-> b, n |-> n, ret |-> ret]

Ready == Call("ready", "", "", 0, None)

\* df["ingredients"] is any sequence of recipes within the bounds
Init ==
    /\ \E lens \in RecipeLengths :
          \E flat \in [1..Sum(lens) -> RawNames] : df = Cut(flat, lens)
    /\ min_cooc \in MinCoocs
    /\ graph = build_graph(df, min_cooc)
    /\ last = Ready

\* a related() that inserts the key it looked up and did not find
DoRelatedInserting ==
    /\ last = Ready
    /\ \E x \in QueryNames, n \in TopNs :
          /\ last' = Call("related", x, "", n, List(related(graph, x, n)))
          /\ graph' = IF HasNode(graph, Normalize(x)) THEN graph
                      ELSE add_node(graph, Normalize(x), 0)
    /\ UNCHANGED <<df, min_cooc>>

DoRelated ==
    /\ last = Ready
    /\ \E x \in QueryNames, n \in TopNs :
          last' = Call("related", x, "", n, List(related(graph, x, n)))
    /\ UNCHANGED <<df, min_cooc, graph>>

DoShortestPath ==
    /\ last = Ready
    /\ \E x \in QueryNames, y \in QueryNames :
          \E r \in shortest_path(graph, x, y) :
              last' = Call("shortest_path", x, y, 0, r)
    /\ UNCHANGED <<df, min_cooc, graph>>

DoMostConnected ==
    /\ last = Ready
    /\ last' = Call("most_connected", "", "", 0, most_connected(graph))
    /\ UNCHANGED <<df, min_cooc, graph>>

DoStats ==
    /\ last = Ready
    /\ \E x \in QueryNames :
          last' = Call("stats", x, "", 0, stats(graph, x))
    /\ UNCHANGED <<df, min_cooc, graph>>

\* the caller has taken the result (the menu loop of _cli prints it and asks again)
Return ==
    /\ last # Ready
    /\ last' = Ready
    /\ UNCHANGED <<df, min_cooc, graph>>

Next == DoRelated \/ DoShortestPath \/ DoMostConnected \/ DoStats \/ Return

Spec == Init /\ [][Next]_vars

----------------------------------------------------------------------------
(* normalize on its own: a text is normalized, then the key is normalized again *)

InitNormalize ==
    /\ df = <<>>
    /\ min_cooc = MIN_COOC_THRESHOLD
    /\ graph = build_graph(df, min_cooc)
    /\ \E x \in Texts : last = Call("text", x, <<>>, 0, List(x))

DoNormalize ==
    /\ last.op = "text"
    /\ last' = Call("normalize", last.a, <<>>, 0, List(normalize(last.a)))
    /\ UNCHANGED <<df, min_cooc, graph>>

DoNormalizeKey ==
    /\ last.op = "normalize"
    /\ last' = Call("normalize_key", last.a, last.ret.val, 0, List(normalize(last.ret.val)))
    /\ UNCHANGED <<df, min_cooc, graph>>

NextNormalize == DoNormalize \/ DoNormalizeKey

SpecNormalize == InitNormalize /\ [][NextNormalize]_vars

----------------------------------------------------------------------------
(* What the claims speak of, stated from the recipes and from the graph *)

\* the set of normalized ingredients of a recipe
KeysOf(recipe) == {KeyOf[recipe[i]] : i \in 1..Len(recipe)}

\* the keys a recipe or a query of the model can mention
KeyUniverse == {KeyOf[x] : x \in RawNames \cup QueryNames}

\* the number of recipes that contain k
RecipeCount(k) == Cardinality({i \in 1..Len(df) : k \in KeysOf(df[i])})

\* the number of recipes, of key sets ks, that contain both a and b
CoCountIn(ks, a, b) == Cardinality({i \in 1..Len(ks) : a \in ks[i] /\ b \in ks[i]})

RecipeKeys == [i \in 1..Len(df) |-> KeysOf(df[i])]

\* the number of recipes that contain both a and b
CoCount(a, b) == CoCountIn(RecipeKeys, a, b)

NodeSet == KeySet(graph.node)

HasEdge(a, b) == HasNode(graph, a) /\ b \in Neighbors(graph, a)

EdgeWeight(a, b) == Get(Get(graph.adj, a), b)

\* some sequence of m nodes goes from a to b along edges of the graph
ConnectsIn(m, a, b) ==
    \E w \in [1..m -> NodeSet] :
        /\ w[1] = a
        /\ w[m] = b
        /\ \A i \in 1..(m - 1) : HasEdge(w[i], w[i + 1])

\* some sequence of edges connects a and b; no node is needed twice
Connected(a, b) == \E m \in 1..Cardinality(NodeSet) : ConnectsIn(m, a, b)

----------------------------------------------------------------------------
(* C1 *)

\* C1 as stated: for every threshold and every two distinct keys, the graph
\* has the edge iff the number of recipes containing both is >= min_cooc, and
\* the weight of an edge is that number.
C1_AsStated ==
    LET ks == RecipeKeys
    IN \A a \in KeyUniverse, b \in KeyUniverse :
        a # b =>
            /\ HasEdge(a, b) <=> CoCountIn(ks, a, b) >= min_cooc
            /\ HasEdge(a, b) => EdgeWeight(a, b) = CoCountIn(ks, a, b)

\* C1 amended: after construction the graph has the edge between two distinct keys iff the
\* number of recipes containing both is >= min_cooc and at least 1 (a pair
\* that never co-occurs gets no edge, whatever the threshold), and the weight
\* of an edge is that number.
C1_Threshold ==
    last = Ready =>
    LET ks == RecipeKeys
    IN \A a \in KeyUniverse, b \in KeyUniverse :
        a # b =>
            /\ HasEdge(a, b) <=> (CoCountIn(ks, a, b) >= min_cooc /\ CoCountIn(ks, a, b) >= 1)
            /\ HasEdge(a, b) => EdgeWeight(a, b) = CoCountIn(ks, a, b)

\* an edge of weight 2 at threshold 2 next to a pair that co-occurs once and has no edge
C1_Witness ==
    /\ min_cooc = 2
    /\ \E a \in NodeSet, b \in NodeSet, c \in NodeSet :
          /\ HasEdge(a, b) /\ EdgeWeight(a, b) = 2
          /\ CoCount(a, c) = 1 /\ ~HasEdge(a, c)

----------------------------------------------------------------------------
(* C2 *)

\* C2: the count attribute of every node is the number of recipes that
\* contain the key, a recipe counting once however often the key occurs in it.
C2_CountPerRecipe ==
    \A i \in 1..Len(graph.node) :
        graph.node[i][2] = RecipeCount(graph.node[i][1])

----------------------------------------------------------------------------
(* C3 *)

\* C3: what shortest_path returns for an unknown ingredient differs from what
\* it returns for two nodes that no sequence of edges connects.
C3_UnknownDiffersFromNoPath ==
    (/\ last.op = "shortest_path"
     /\ ~HasNode(graph, KeyOf[last.a]) \/ ~HasNode(graph, KeyOf[last.b]))
    => \A y \in QueryNames, z \in QueryNames :
          (/\ HasNode(graph, KeyOf[y])
           /\ HasNode(graph, KeyOf[z])
           /\ ~Connected(KeyOf[y], KeyOf[z]))
          => \A r \in shortest_path(graph, y, z) : r # last.ret

----------------------------------------------------------------------------
(* C4 *)

\* the neighbours of key k that the returned sequence ret leaves out
Omitted(k, ret) == Neighbors(graph, k) \ {ret[i][1] : i \in 1..Len(ret)}

\* C4: in the result of related, neighbours of equal weight are in ascending
\* alphabetical order, and a neighbour cut off by top_n is never alphabetically
\* smaller than a returned neighbour of the same weight.
C4_AlphabeticalTies ==
    (last.op = "related" /\ last.n >= 0 /\ HasNode(graph, KeyOf[last.a]))
    => LET ret == last.ret.val
           k == KeyOf[last.a]
       IN /\ \A i \in 1..Len(ret), j \in 1..Len(ret) :
                (i < j /\ ret[i][2] = ret[j][2]) => Less(ret[i][1], ret[j][1])
          /\ \A i \in 1..Len(ret), o \in Omitted(k, ret) :
                EdgeWeight(k, o) = ret[i][2] => Less(ret[i][1], o)

----------------------------------------------------------------------------
(* C5 *)

\* C5: on a non-empty graph most_connected returns (k, d) with d the degree of
\* k, d the maximum degree, and k the alphabetically smallest key of degree d.
C5_SmallestOfMaxDegree ==
    (last.op = "most_connected" /\ NodeSet # {})
    => /\ last.ret.kind = "tuple"
       /\ LET k == last.ret.val[1]
              d == last.ret.val[2]
          IN /\ k \in NodeSet
             /\ d = degree(graph, k)
             /\ \A m \in NodeSet : degree(graph, m) <= d
             /\ \A m \in NodeSet : (m # k /\ degree(graph, m) = d) => Less(k, m)

----------------------------------------------------------------------------
(* C6 *)

\* C6: for two nodes, shortest_path returns a sequence of nodes from the first
\* key to the second, consecutive nodes joined by an edge of the graph, with
\* as few edges as any connecting sequence has, when one exists (the single
\* node when the keys are equal), and None when none exists.
C6_ShortestPath ==
    (/\ last.op = "shortest_path"
     /\ HasNode(graph, KeyOf[last.a])
     /\ HasNode(graph, KeyOf[last.b]))
    => LET a == KeyOf[last.a]
           b == KeyOf[last.b]
           p == last.ret.val
       IN IF Connected(a, b)
          THEN /\ last.ret.kind = "list"
               /\ Len(p) >= 1
               /\ p[1] = a
               /\ p[Len(p)] = b
               /\ \A i \in 1..(Len(p) - 1) : HasEdge(p[i], p[i + 1])
               /\ \A m \in 1..(Len(p) - 1) : ~ConnectsIn(m, a, b)
               /\ a = b => p = <<a>>
          ELSE last.ret = None

\* a returned path of two edges between nodes that have no edge of their own
C6_Witness ==
    /\ last.op = "shortest_path"
    /\ last.ret.kind = "list"
    /\ Len(last.ret.val) = 3
    /\ ~HasEdge(last.ret.val[1], last.ret.val[3])

----------------------------------------------------------------------------
(* C7 *)

\* C7: for a node and top_n >= 0, related returns exactly min(top_n, degree)
\* pairs, each an edge of the node with its weight, no neighbour twice, in
\* non-increasing order of weight, no omitted neighbour heavier than a
\* returned one.
C7_TopByWeight ==
    (last.op = "related" /\ last.n >= 0 /\ HasNode(graph, KeyOf[last.a]))
    => LET ret == last.ret.val
           k == KeyOf[last.a]
           ks == RecipeKeys
       IN /\ Len(ret) = Min(last.n, degree(graph, k))
          /\ \A i \in 1..Len(ret) :
                /\ HasEdge(k, ret[i][1])
                /\ ret[i][2] = EdgeWeight(k, ret[i][1])
                /\ ret[i][2] = CoCountIn(ks, k, ret[i][1])
          /\ \A i \in 1..Len(ret), j \in 1..Len(ret) :
                i < j => (ret[i][1] # ret[j][1] /\ ret[i][2] >= ret[j][2])
          /\ \A i \in 1..Len(ret), o \in Omitted(k, ret) :
                EdgeWeight(k, o) <= ret[i][2]

\* top_n cuts between two neighbours of different weight
C7_Witness ==
    /\ last.op = "related"
    /\ last.n = 1
    /\ HasNode(graph, KeyOf[last.a])
    /\ degree(graph, KeyOf[last.a]) = 2
    /\ Len(last.ret.val) = 1
    /\ \E o \in Omitted(KeyOf[last.a], last.ret.val) :
          EdgeWeight(KeyOf[last.a], o) < last.ret.val[1][2]

----------------------------------------------------------------------------
(* C8 *)

\* C8: what related returns for an unknown ingredient differs from what it
\* returns for a node without neighbours.
C8_UnknownDiffersFromIsolated ==
    (last.op = "related" /\ ~HasNode(graph, KeyOf[last.a]))
    => /\ last.ret.kind # "raise"
       /\ \A y \in QueryNames, n \in TopNs :
             (HasNode(graph, KeyOf[y]) /\ degree(graph, KeyOf[y]) = 0)
             => List(related(graph, y, n)) # last.ret

----------------------------------------------------------------------------
(* C9 *)

\* C9: normalize is idempotent: normalizing the key that normalize gave for a
\* text gives that key again.
C9_Idempotent ==
    last.op = "normalize_key" => last.ret.val = last.b

\* a text that normalize changed into a non-empty key, normalized again
C9_Witness ==
    /\ last.op = "normalize_key"
    /\ last.b # last.a
    /\ last.b # <<>>
    /\ \E i \in 1..Len(last.b) : last.b[i] = " "

----------------------------------------------------------------------------
(* C10 *)

\* C10: no call of related, shortest_path, most_connected or stats changes the
\* graph: nodes, counts, edges and weights after a step are those before it.
C10_QueriesReadOnly == [][graph' = graph]_vars

\* a query on an unknown ingredient has returned from a graph that has an edge
C10_Witness ==
    /\ last.op \in {"related", "stats", "shortest_path"}
    /\ ~HasNode(graph, KeyOf[last.a])
    /\ \E a \in NodeSet : degree(graph, a) > 0

====
